---------------------------- MODULE Spec2Model ----------------------------
(***************************************************************************)
(* The quadkey and geohash codecs of package geo (point.go).               *)
(*                                                                         *)
(* Every exported codec function is a pure function of its arguments.  A   *)
(* behaviour of the model is one call: Init binds the function (op) and    *)
(* its arguments, the actions run the function body, and, for an encoder,  *)
(* a further action feeds the result to the matching decoder, as the        *)
(* package's tests do.  GeoHashInt64 is run one loop iteration per step so *)
(* that its loop invariants can be stated.                                 *)
(*                                                                         *)
(* Numbers.  Coordinates are float64 degrees in the code.  The model keeps *)
(* them as exact integers in units of 1/Scale degree.  Every bound and     *)
(* midpoint GeoHashInt64 computes for up to 63 bits is a multiple of       *)
(* 45 * 2^-29 of magnitude at most 180, which float64 represents exactly,  *)
(* so the code's float arithmetic on them is exact as well.                *)
(* The Mercator projection helpers are not part of point.go; a point of    *)
(* the quadkey family is kept as the grid cell it projects to at the       *)
(* finest level the model covers.                                          *)
(***************************************************************************)
EXTENDS Integers, Sequences, FiniteSets

\* Finest quadkey level the model covers.
MaxLevel == 3

\* Largest geohash bit count the model covers.
MaxBits == 10

VARIABLES
    op,         \* the exported function this behaviour calls
    pc,         \* "call": arguments bound, "loop": inside GeoHashInt64's for,
                \* "ret": returned, "back": the result decoded again
    status,     \* "none" before the return, "ok" normal return, "panic" run-time panic
    tile,       \* quadkey family: the Point receiver, as its finest-level grid cell
    level,      \* level argument
    key,        \* int64 key: argument of a decoder, result of an encoder
    str,        \* string key: argument of a decoder, result of an encoder
    out,        \* the Point a NewPointFrom... function returned
    p,          \* geohash family: the Point receiver [lng, lat], in 1/Scale degree
    bits,       \* GeoHashInt64: parameter bits
    i,          \* GeoHashInt64: loop counter
    hash,       \* GeoHashInt64: named result hash; argument of NewPointFromGeoHashInt64
    lngMin, lngMax, latMin, latMax,   \* GeoHashInt64: running bounds
    precision   \* GeoHash: chars[0]

vars == <<op, pc, status, tile, level, key, str, out, p, bits, i, hash,
          lngMin, lngMax, latMin, latMax, precision>>

quadVars == <<tile, level, key, str>>
geoVars == <<p, bits, i, hash, lngMin, lngMax, latMin, latMax, precision>>

-----------------------------------------------------------------------------
(* Go's integer operators on non-negative values that fit the word.        *)

Pow2(n) == 2 ^ n

\* a << n
Shl(a, n) == a * Pow2(n)

\* a >> n
Shr(a, n) == a \div Pow2(n)

RECURSIVE BitAnd(_, _)
\* a & b
BitAnd(a, b) ==
    IF a = 0 \/ b = 0 THEN 0
    ELSE (IF a % 2 = 1 /\ b % 2 = 1 THEN 1 ELSE 0) + 2 * BitAnd(a \div 2, b \div 2)

RECURSIVE BitOr(_, _)
\* a | b
BitOr(a, b) ==
    IF a = 0 THEN b
    ELSE IF b = 0 THEN a
    ELSE (IF a % 2 = 1 \/ b % 2 = 1 THEN 1 ELSE 0) + 2 * BitOr(a \div 2, b \div 2)

-----------------------------------------------------------------------------
(* Quadkey codec.                                                          *)

\* The grid cells of the finest level: the points of the quadkey family.
Tiles == [x : 0 .. Pow2(MaxLevel) - 1, y : 0 .. Pow2(MaxLevel) - 1]

\* Grid coordinates of a point at a level: each in [0, 2^level).
scalarMercatorProject(pt, lvl) ==
    [x |-> Shr(pt.x, MaxLevel - lvl), y |-> Shr(pt.y, MaxLevel - lvl)]

\* The point of a grid cell of a level (the cell's corner).
scalarMercatorInverse(x, y, lvl) ==
    [x |-> Shl(x, MaxLevel - lvl), y |-> Shl(y, MaxLevel - lvl)]

RECURSIVE QuadkeyLoopOddShift(_, _, _, _, _)
\* The interleaving with y's bit shifted by i, not i + 1.
QuadkeyLoopOddShift(x, y, lvl, n, result) ==
    IF n < lvl
    THEN QuadkeyLoopOddShift(x, y, lvl, n + 1,
             BitOr(BitOr(result, Shl(BitAnd(x, Shl(1, n)), n)),
                   Shl(BitAnd(y, Shl(1, n)), n)))
    ELSE result

RECURSIVE QuadkeyLoop(_, _, _, _, _)
\* for i = 0; i < uint(level); i++ { result |= (x & (1<<i)) << i; result |= (y & (1<<i)) << (i+1) }
QuadkeyLoop(x, y, lvl, n, result) ==
    IF n < lvl
    THEN QuadkeyLoop(x, y, lvl, n + 1,
             BitOr(BitOr(result, Shl(BitAnd(x, Shl(1, n)), n)),
                   Shl(BitAnd(y, Shl(1, n)), n + 1)))
    ELSE result

Quadkey(pt, lvl) ==
    LET g == scalarMercatorProject(pt, lvl)
    IN  QuadkeyLoop(g.x, g.y, lvl, 0, 0)

RECURSIVE NewPointFromQuadkeyLoopSameBit(_, _, _, _, _)
\* The de-interleaving with y read from bit 2i, like x.
NewPointFromQuadkeyLoopSameBit(k, lvl, n, x, y) ==
    IF n < lvl
    THEN NewPointFromQuadkeyLoopSameBit(k, lvl, n + 1,
             BitOr(x, Shr(BitAnd(k, Shl(1, 2 * n)), n)),
             BitOr(y, Shr(BitAnd(k, Shl(1, 2 * n)), n)))
    ELSE [x |-> x, y |-> y]

RECURSIVE NewPointFromQuadkeyLoop(_, _, _, _, _)
\* for i = 0; i < uint(level); i++ { x |= (key & (1<<(2*i))) >> i; y |= (key & (1<<(2*i+1))) >> (i+1) }
NewPointFromQuadkeyLoop(k, lvl, n, x, y) ==
    IF n < lvl
    THEN NewPointFromQuadkeyLoop(k, lvl, n + 1,
             BitOr(x, Shr(BitAnd(k, Shl(1, 2 * n)), n)),
             BitOr(y, Shr(BitAnd(k, Shl(1, 2 * n + 1)), n + 1)))
    ELSE [x |-> x, y |-> y]

NewPointFromQuadkey(k, lvl) ==
    LET g == NewPointFromQuadkeyLoop(k, lvl, 0, 0, 0)
    IN  scalarMercatorInverse(g.x, g.y, lvl)

\* The characters a key string is drawn from: the base-4 digits and one other.
Digits4 == <<"0", "1", "2", "3">>
Chars == {"0", "1", "2", "3", "x"}

RECURSIVE FormatDigits(_)
FormatDigits(n) ==
    IF n = 0 THEN <<>> ELSE Append(FormatDigits(n \div 4), Digits4[(n % 4) + 1])

\* strconv.FormatInt(n, 4) for n >= 0
FormatInt4(n) == IF n = 0 THEN <<"0">> ELSE FormatDigits(n)

\* zeros[:n]
Zeros(n) == [j \in 1 .. n |-> "0"]

QuadkeyString(pt, lvl) ==
    LET s == FormatInt4(Quadkey(pt, lvl))
    IN  Zeros(((lvl + 1) - Len(s)) \div 2) \o s

DigitValue(c) == CHOOSE d \in 0 .. 3 : Digits4[d + 1] = c

RECURSIVE ParseDigits(_)
ParseDigits(s) ==
    IF s = <<>> THEN 0
    ELSE 4 * ParseDigits(SubSeq(s, 1, Len(s) - 1)) + DigitValue(s[Len(s)])

\* Whether strconv.ParseInt(s, 4, 64) reports no error.
ParsesBase4(s) == s # <<>> /\ \A j \in 1 .. Len(s) : s[j] \in {"0", "1", "2", "3"}

\* i, _ := strconv.ParseInt(s, 4, 64): the value, 0 with the error dropped.
ParseInt4(s) == IF ParsesBase4(s) THEN ParseDigits(s) ELSE 0

NewPointFromQuadkeyString(s) == NewPointFromQuadkey(ParseInt4(s), Len(s))

RECURSIVE StringsOfLen(_)
StringsOfLen(n) ==
    IF n = 0 THEN {<<>>}
    ELSE {Append(s, c) : s \in StringsOfLen(n - 1), c \in Chars}

\* The key strings handed to NewPointFromQuadkeyString.
KeyStrings == UNION {StringsOfLen(n) : n \in 0 .. MaxLevel}

-----------------------------------------------------------------------------
(* Geohash codec.                                                          *)

\* Coordinate units per degree: fine enough that every midpoint is whole.
Scale == Pow2(MaxBits)

\* The sample points: a lattice of StepDeg degrees, LngCells steps either
\* side of 0 in longitude and LatCells in latitude (the outermost step lies
\* outside [-180, 180] resp. [-90, 90]).
StepDeg == 15
LngCells == 13
LatCells == 7

Points ==
    [lng : {StepDeg * k * Scale : k \in -LngCells .. LngCells},
     lat : {StepDeg * k * Scale : k \in -LatCells .. LatCells}]

\* latMin, latMax := -90.0, 90.0; lngMin, lngMax := -180.0, 180.0; hash = 0; i := 0
GeoHashInt64Entry ==
    [i |-> 0, hash |-> 0,
     lngMin |-> -180 * Scale, lngMax |-> 180 * Scale,
     latMin |-> -90 * Scale, latMax |-> 90 * Scale]

\* The loop body with the branches' bounds exchanged (the upper bound moves
\* when the coordinate is above the midpoint).
GeoHashInt64BodyWrongBound(s, pt) ==
    LET h == Shl(s.hash, 1)
    IN  IF s.i % 2 = 0
        THEN LET mid == (s.lngMin + s.lngMax) \div 2
             IN  IF pt.lng > mid
                 THEN [s EXCEPT !.i = s.i + 1, !.lngMax = mid, !.hash = BitOr(h, 1)]
                 ELSE [s EXCEPT !.i = s.i + 1, !.lngMin = mid, !.hash = h]
        ELSE LET mid == (s.latMin + s.latMax) \div 2
             IN  IF pt.lat > mid
                 THEN [s EXCEPT !.i = s.i + 1, !.latMax = mid, !.hash = BitOr(h, 1)]
                 ELSE [s EXCEPT !.i = s.i + 1, !.latMin = mid, !.hash = h]

\* The loop body with the comparison reversed (bit 1 below the midpoint).
GeoHashInt64BodyReversed(s, pt) ==
    LET h == Shl(s.hash, 1)
    IN  IF s.i % 2 = 0
        THEN LET mid == (s.lngMin + s.lngMax) \div 2
             IN  IF pt.lng < mid
                 THEN [s EXCEPT !.i = s.i + 1, !.lngMax = mid, !.hash = BitOr(h, 1)]
                 ELSE [s EXCEPT !.i = s.i + 1, !.lngMin = mid, !.hash = h]
        ELSE LET mid == (s.latMin + s.latMax) \div 2
             IN  IF pt.lat < mid
                 THEN [s EXCEPT !.i = s.i + 1, !.latMax = mid, !.hash = BitOr(h, 1)]
                 ELSE [s EXCEPT !.i = s.i + 1, !.latMin = mid, !.hash = h]

\* The loop body with latitude on the even iterations.
GeoHashInt64BodyLatFirst(s, pt) ==
    LET h == Shl(s.hash, 1)
    IN  IF s.i % 2 = 1
        THEN LET mid == (s.lngMin + s.lngMax) \div 2
             IN  IF pt.lng > mid
                 THEN [s EXCEPT !.i = s.i + 1, !.lngMin = mid, !.hash = BitOr(h, 1)]
                 ELSE [s EXCEPT !.i = s.i + 1, !.lngMax = mid, !.hash = h]
        ELSE LET mid == (s.latMin + s.latMax) \div 2
             IN  IF pt.lat > mid
                 THEN [s EXCEPT !.i = s.i + 1, !.latMin = mid, !.hash = BitOr(h, 1)]
                 ELSE [s EXCEPT !.i = s.i + 1, !.latMax = mid, !.hash = h]

\* One iteration of GeoHashInt64's for loop, i++ included.
GeoHashInt64Body(s, pt) ==
    LET h == Shl(s.hash, 1)
    IN  IF s.i % 2 = 0
        THEN LET mid == (s.lngMin + s.lngMax) \div 2
             IN  IF pt.lng > mid
                 THEN [s EXCEPT !.i = s.i + 1, !.lngMin = mid, !.hash = BitOr(h, 1)]
                 ELSE [s EXCEPT !.i = s.i + 1, !.lngMax = mid, !.hash = h]
        ELSE LET mid == (s.latMin + s.latMax) \div 2
             IN  IF pt.lat > mid
                 THEN [s EXCEPT !.i = s.i + 1, !.latMin = mid, !.hash = BitOr(h, 1)]
                 ELSE [s EXCEPT !.i = s.i + 1, !.latMax = mid, !.hash = h]

RECURSIVE GeoHashInt64Run(_, _, _)
\* for i := 0; i < bits; i++ { body }; return
GeoHashInt64Run(s, pt, n) ==
    IF s.i < n THEN GeoHashInt64Run(GeoHashInt64Body(s, pt), pt, n) ELSE s.hash

\* p.GeoHashInt64(n), the whole call.
GeoHashInt64(pt, n) == GeoHashInt64Run(GeoHashInt64Entry, pt, n)

base32 ==
    <<"0", "1", "2", "3", "4", "5", "6", "7", "8", "9", "b", "c", "d", "e", "f", "g",
      "h", "j", "k", "m", "n", "p", "q", "r", "s", "t", "u", "v", "w", "x", "y", "z">>

\* var result [15]byte
ResultLen == 15
ZeroResult == [j \in 1 .. ResultLen |-> "NUL"]

RECURSIVE GeoHashFillForward(_, _, _, _)
\* The fill loop writing result[i-1]: least significant group first.
GeoHashFillForward(result, h, prec, n) ==
    IF n <= prec
    THEN GeoHashFillForward([result EXCEPT ![n] = base32[BitAnd(h, 31) + 1]],
                            Shr(h, 5), prec, n + 1)
    ELSE result

RECURSIVE GeoHashFill(_, _, _, _)
\* for i := 1; i <= precision; i++ { result[precision-i] = byte(base32[hash&0x1F]); hash >>= 5 }
GeoHashFill(result, h, prec, n) ==
    IF n <= prec
    THEN GeoHashFill([result EXCEPT ![(prec - n) + 1] = base32[BitAnd(h, 31) + 1]],
                     Shr(h, 5), prec, n + 1)
    ELSE result

\* p.GeoHash(prec): a run-time panic when result[precision-i] or
\* result[:precision] is out of range, else the string.
GeoHash(pt, prec) ==
    IF prec < 0 \/ prec > ResultLen
    THEN [status |-> "panic", value |-> <<>>]
    ELSE [status |-> "ok",
          value |-> SubSeq(GeoHashFill(ZeroResult, GeoHashInt64(pt, 5 * prec), prec, 1),
                           1, prec)]

RECURSIVE geoHashInt2ranges(_, _, _, _)
\* Replays the n bits of h, most significant first, from bounds b at step k:
\* longitude on even steps, latitude on odd; bit 1 raises the lower bound to
\* the midpoint, bit 0 lowers the upper bound to it.
geoHashInt2ranges(h, n, k, b) ==
    IF k < n
    THEN LET bit == BitAnd(Shr(h, (n - 1) - k), 1)
         IN  IF k % 2 = 0
             THEN LET mid == (b.lngMin + b.lngMax) \div 2
                  IN  geoHashInt2ranges(h, n, k + 1,
                          IF bit = 1 THEN [b EXCEPT !.lngMin = mid]
                                     ELSE [b EXCEPT !.lngMax = mid])
             ELSE LET mid == (b.latMin + b.latMax) \div 2
                  IN  geoHashInt2ranges(h, n, k + 1,
                          IF bit = 1 THEN [b EXCEPT !.latMin = mid]
                                     ELSE [b EXCEPT !.latMax = mid])
    ELSE b

\* NewPoint((west+east)/2.0, (north+south)/2.0)
NewPointFromGeoHashInt64(h, n) ==
    LET r == geoHashInt2ranges(h, n, 0, GeoHashInt64Entry)
    IN  [lng |-> (r.lngMin + r.lngMax) \div 2, lat |-> (r.latMax + r.latMin) \div 2]

-----------------------------------------------------------------------------
NoTile == [x |-> 0, y |-> 0]
NoPoint == [lng |-> 0, lat |-> 0]

InitQuadIdle ==
    /\ tile = NoTile /\ level = 0 /\ key = 0 /\ str = <<>>

InitGeoIdle ==
    /\ p = NoPoint /\ bits = 0 /\ hash = 0 /\ precision = 0

\* GeoHashInt64's locals before the call.
InitLocals ==
    /\ i = 0 /\ lngMin = 0 /\ lngMax = 0 /\ latMin = 0 /\ latMax = 0

InitQuad ==
    /\ out = NoTile
    /\ InitGeoIdle
    /\ \/ /\ op \in {"Quadkey", "QuadkeyString"}
          /\ tile \in Tiles
          /\ level \in 0 .. MaxLevel
          /\ key = 0 /\ str = <<>>
       \/ /\ op = "NewPointFromQuadkey"
          /\ level \in 0 .. MaxLevel
          /\ key \in 0 .. Pow2(2 * level) - 1
          /\ tile = NoTile /\ str = <<>>
       \/ /\ op = "NewPointFromQuadkeyString"
          /\ str \in KeyStrings
          /\ tile = NoTile /\ level = 0 /\ key = 0

InitGeo ==
    /\ out = NoPoint
    /\ InitQuadIdle
    /\ \/ /\ op = "GeoHashInt64"
          /\ p \in Points
          /\ bits \in -1 .. MaxBits
          /\ hash = 0 /\ precision = 0
       \/ /\ op = "GeoHash"
          /\ p \in Points
          /\ precision \in -1 .. MaxBits \div 5
          /\ hash = 0 /\ bits = 0
       \/ /\ op = "NewPointFromGeoHashInt64"
          /\ bits \in 0 .. MaxBits
          /\ hash \in 0 .. Pow2(bits) - 1
          /\ p = NoPoint /\ precision = 0

Init ==
    /\ pc = "call" /\ status = "none"
    /\ InitLocals
    /\ (InitQuad \/ InitGeo)

QuadkeyCall ==
    /\ op = "Quadkey" /\ pc = "call"
    /\ key' = Quadkey(tile, level)
    /\ pc' = "ret" /\ status' = "ok"
    /\ UNCHANGED <<op, tile, level, str, out, geoVars>>

QuadkeyStringCall ==
    /\ op = "QuadkeyString" /\ pc = "call"
    /\ str' = QuadkeyString(tile, level)
    /\ pc' = "ret" /\ status' = "ok"
    /\ UNCHANGED <<op, tile, level, key, out, geoVars>>

\* NewPointFromQuadkey on its own arguments, or on the key Quadkey returned.
NewPointFromQuadkeyCall ==
    /\ \/ op = "NewPointFromQuadkey" /\ pc = "call"
       \/ op = "Quadkey" /\ pc = "ret"
    /\ out' = NewPointFromQuadkey(key, level)
    /\ pc' = (IF pc = "call" THEN "ret" ELSE "back")
    /\ status' = "ok"
    /\ UNCHANGED <<op, quadVars, geoVars>>

\* NewPointFromQuadkeyString on its own argument, or on the string QuadkeyString returned.
NewPointFromQuadkeyStringCall ==
    /\ \/ op = "NewPointFromQuadkeyString" /\ pc = "call"
       \/ op = "QuadkeyString" /\ pc = "ret"
    /\ out' = NewPointFromQuadkeyString(str)
    /\ pc' = (IF pc = "call" THEN "ret" ELSE "back")
    /\ status' = "ok"
    /\ UNCHANGED <<op, quadVars, geoVars>>

\* GeoHashInt64's locals as one record, and back.
Locals ==
    [i |-> i, hash |-> hash, lngMin |-> lngMin, lngMax |-> lngMax,
     latMin |-> latMin, latMax |-> latMax]

SetLocals(s) ==
    /\ i' = s.i /\ hash' = s.hash
    /\ lngMin' = s.lngMin /\ lngMax' = s.lngMax
    /\ latMin' = s.latMin /\ latMax' = s.latMax

\* GeoHashInt64 entered: the locals initialised.
GeoHashInt64Enter ==
    /\ op = "GeoHashInt64" /\ pc = "call"
    /\ SetLocals(GeoHashInt64Entry)
    /\ pc' = "loop"
    /\ UNCHANGED <<op, status, quadVars, out, p, bits, precision>>

\* One iteration of the for loop.
GeoHashInt64Iterate ==
    /\ op = "GeoHashInt64" /\ pc = "loop"
    /\ i < bits
    /\ SetLocals(GeoHashInt64Body(Locals, p))
    /\ UNCHANGED <<op, pc, status, quadVars, out, p, bits, precision>>

\* The loop condition fails: return hash.
GeoHashInt64Return ==
    /\ op = "GeoHashInt64" /\ pc = "loop"
    /\ ~(i < bits)
    /\ pc' = "ret" /\ status' = "ok"
    /\ UNCHANGED <<op, quadVars, out, geoVars>>

\* GeoHash, its call of GeoHashInt64 included.
GeoHashCall ==
    /\ op = "GeoHash" /\ pc = "call"
    /\ LET r == GeoHash(p, precision)
       IN  str' = r.value /\ status' = r.status
    /\ pc' = "ret"
    /\ UNCHANGED <<op, tile, level, key, out, geoVars>>

NewPointFromGeoHashInt64Call ==
    /\ op = "NewPointFromGeoHashInt64" /\ pc = "call"
    /\ out' = NewPointFromGeoHashInt64(hash, bits)
    /\ pc' = "ret" /\ status' = "ok"
    /\ UNCHANGED <<op, quadVars, geoVars>>

\* The point NewPointFromGeoHashInt64 returned, encoded again at the same bit count.
ReencodeCall ==
    /\ op = "NewPointFromGeoHashInt64" /\ pc = "ret"
    /\ key' = GeoHashInt64(out, bits)
    /\ pc' = "back"
    /\ UNCHANGED <<op, status, tile, level, str, out, geoVars>>

Next ==
    \/ QuadkeyCall
    \/ QuadkeyStringCall
    \/ NewPointFromQuadkeyCall
    \/ NewPointFromQuadkeyStringCall
    \/ GeoHashInt64Enter
    \/ GeoHashInt64Iterate
    \/ GeoHashInt64Return
    \/ GeoHashCall
    \/ NewPointFromGeoHashInt64Call
    \/ ReencodeCall

Spec == Init /\ [][Next]_vars

-----------------------------------------------------------------------------
(* Quadkey claims.                                                         *)

\* The level-L string of key k: its L base-4 digits, most significant first.
PaddedBase4(k, lvl) == [j \in 1 .. lvl |-> Digits4[((k \div (4 ^ (lvl - j))) % 4) + 1]]

\* C1: for every level L >= 1 and every point, QuadkeyString(p, L) has exactly
\* L characters: the base-4 digits of Quadkey(p, L) left-padded with '0' up
\* to length L, however many leading zero digits the key has.
C1_QuadkeyStringLength ==
    (op = "QuadkeyString" /\ pc = "ret" /\ level >= 1)
        => /\ Len(str) = level
           /\ str = PaddedBase4(Quadkey(tile, level), level)

\* C2: for every level L >= 1 and every point,
\* NewPointFromQuadkeyString(QuadkeyString(p, L)) decodes the same key at the
\* same level as NewPointFromQuadkey(Quadkey(p, L), L): the string's length is
\* L, the integer parsed from it is Quadkey(p, L), and the point returned is
\* the one of p's level-L grid cell.
C2_QuadkeyStringRoundTrip ==
    (op = "QuadkeyString" /\ pc = "back" /\ level >= 1)
        => /\ Len(str) = level
           /\ ParseInt4(str) = Quadkey(tile, level)
           /\ out = NewPointFromQuadkey(Quadkey(tile, level), level)
           /\ scalarMercatorProject(out, level) = scalarMercatorProject(tile, level)

\* The grid pairs of a level.
Grid(lvl) == [x : 0 .. Pow2(lvl) - 1, y : 0 .. Pow2(lvl) - 1]

\* C3: at every level L the interleaving of Quadkey is a bijection between
\* the grid pairs (x, y), x, y in [0, 2^L), and the integers in [0, 4^L): the
\* key of a pair lies in the range, no other pair has the same key, and every
\* integer of the range (the key argument of a decoder call) is the key of
\* some pair; at level 0 the key is 0.
C3_InterleaveBijection ==
    /\ (op = "Quadkey" /\ pc = "ret")
          => LET g == scalarMercatorProject(tile, level)
             IN  /\ key \in 0 .. (4 ^ level) - 1
                 /\ \A h \in Grid(level) :
                        h # g => QuadkeyLoop(h.x, h.y, level, 0, 0) # key
                 /\ level = 0 => key = 0
    /\ (op = "NewPointFromQuadkey" /\ pc = "ret")
          => \E h \in Grid(level) : QuadkeyLoop(h.x, h.y, level, 0, 0) = key

\* Quadkey has returned the largest key of the finest level.
C3_Witness ==
    /\ op = "Quadkey" /\ pc = "ret"
    /\ level = MaxLevel /\ key = (4 ^ level) - 1

\* C4: for every level L >= 1 and every grid pair (x, y), the de-interleaving
\* loop of NewPointFromQuadkey applied to the key Quadkey made of (x, y)
\* recovers exactly (x, y), and the point NewPointFromQuadkey returns lies in
\* the same level-L grid cell as p.
C4_QuadkeyRoundTrip ==
    (op = "Quadkey" /\ pc = "back" /\ level >= 1)
        => LET g == scalarMercatorProject(tile, level)
           IN  /\ NewPointFromQuadkeyLoop(key, level, 0, 0, 0) = g
               /\ scalarMercatorProject(out, level) = g

\* A finest-level key of a cell with x # y, both non-zero, decoded to that cell.
C4_Witness ==
    /\ op = "Quadkey" /\ pc = "back"
    /\ level = MaxLevel
    /\ tile.x > 0 /\ tile.y > 0 /\ tile.x # tile.y
    /\ out = tile

-----------------------------------------------------------------------------
(* Geohash claims.                                                         *)

\* C5: for every point and every precision c >= 1 (at most 12), GeoHash(p, c)
\* is exactly c characters long, and its character at position j (from the
\* left) is the alphabet symbol whose index is the j-th 5-bit group, most
\* significant first, of GeoHashInt64(p, 5c).
C5_GeoHashIsBase32OfBits ==
    (op = "GeoHash" /\ pc = "ret" /\ precision >= 1 /\ precision <= 12)
        => /\ status = "ok"
           /\ Len(str) = precision
           /\ \A j \in 1 .. precision :
                  str[j] = base32[((GeoHashInt64(p, 5 * precision)
                                      \div (32 ^ (precision - j))) % 32) + 1]

\* GeoHash has returned a hash of two different characters.
C5_Witness ==
    /\ op = "GeoHash" /\ pc = "ret" /\ status = "ok"
    /\ precision = 2
    /\ Len(str) = 2 /\ str[1] # str[2]

C7_DecodedPointEncodesBack ==
    (op = "NewPointFromGeoHashInt64" /\ pc = "back" /\ bits >= 1)
        => /\ key = hash
           /\ LET r == geoHashInt2ranges(hash, bits, 0, GeoHashInt64Entry)
              IN  /\ r.lngMin <= out.lng /\ out.lng <= r.lngMax
                  /\ r.latMin <= out.lat /\ out.lat <= r.latMax

\* A hash of the largest bit count, with both 0 and 1 bits, decoded and
\* encoded again.
C7_Witness ==
    /\ op = "NewPointFromGeoHashInt64" /\ pc = "back"
    /\ bits = MaxBits
    /\ hash % 4 = 1 /\ hash > Pow2(bits - 1)
    /\ key = hash

-----------------------------------------------------------------------------
(* Error handling claims.                                                  *)

\* C8: decoding a malformed key string (a string that does not parse as
\* base 4: empty, or with a character outside '0'..'3') does not return a
\* point; it fails.
C8_MalformedKeyFails ==
    (op = "NewPointFromQuadkeyString" /\ pc = "ret" /\ ~ParsesBase4(str))
        => status # "ok"

\* C9: a bit count or precision outside the supported range (GeoHashInt64:
\* negative or above 63; GeoHash: negative or above 12) does not return a
\* key; the call fails.
C9_OutOfRangeFails ==
    (/\ pc = "ret"
     /\ \/ op = "GeoHashInt64" /\ bits \notin 0 .. 63
        \/ op = "GeoHash" /\ precision \notin 0 .. 12)
        => status # "ok"

-----------------------------------------------------------------------------
(* GeoHashInt64's loop.                                                    *)

InDomain(pt) ==
    /\ -180 * Scale <= pt.lng /\ pt.lng <= 180 * Scale
    /\ -90 * Scale <= pt.lat /\ pt.lat <= 90 * Scale

\* How many of a and b are true.
Count2(a, b) == (IF a THEN 1 ELSE 0) + (IF b THEN 1 ELSE 0)

\* An iteration of the loop, for a point of the domain, keeps the point
\* within the bounds and the accumulator below 2^i, and changes exactly one
\* bound: a longitude bound on even i, a latitude bound on odd i.
IterationKeepsInvariant ==
    (op = "GeoHashInt64" /\ pc = "loop" /\ pc' = "loop" /\ i' = i + 1 /\ InDomain(p))
        => /\ lngMin' <= p.lng /\ p.lng <= lngMax'
           /\ latMin' <= p.lat /\ p.lat <= latMax'
           /\ hash' \in 0 .. Pow2(i') - 1
           /\ IF i % 2 = 0
              THEN /\ Count2(lngMin' # lngMin, lngMax' # lngMax) = 1
                   /\ latMin' = latMin /\ latMax' = latMax
              ELSE /\ Count2(latMin' # latMin, latMax' # latMax) = 1
                   /\ lngMin' = lngMin /\ lngMax' = lngMax

\* C10: in GeoHashInt64, for every point of the domain, after each loop
\* iteration the running bounds still contain the point, the accumulator
\* after i iterations lies in [0, 2^i), and exactly one of the four bounds
\* changed in that iteration: a longitude bound on even i, a latitude bound
\* on odd i.
C10_LoopInvariant == [][IterationKeepsInvariant]_vars

\* All iterations of the largest bit count done for a point of the domain,
\* with bits of both values emitted.
C10_Witness ==
    /\ op = "GeoHashInt64" /\ pc = "loop"
    /\ bits = MaxBits /\ i = bits
    /\ InDomain(p)
    /\ hash % 4 = 2
    /\ lngMin > -180 * Scale /\ latMax < 90 * Scale

=============================================================================
